---- MODULE Spec2Model ----
(***************************************************************************)
(* Model of bot_cloud.py: the cloud Telegram bot of the 4 Muluk system.    *)
(*                                                                         *)
(* Texts (command arguments, callback data, tokens) are sequences of       *)
(* one-character strings, so that date parsing and formatting are          *)
(* computed character by character as the library routines do.  A         *)
(* printable character of ASCII, a tab, a line feed, a carriage return     *)
(* and a form feed are each the string of that character; any other        *)
(* character is the string of its code point, as in "U+0662" for the       *)
(* Arabic-Indic digit two and "U+000B" for the vertical tab.               *)
(* Dates are records [y, m, d].  The calendrical engine (mayan_logic) is   *)
(* an external collaborator: its values are opaque, and whether one of     *)
(* its calls raises is an input of each handler invocation.                *)
(***************************************************************************)
EXTENDS Integers, Sequences, FiniteSets, TLC

(***************************************************************************)
(* Characters and numerals                                                 *)
(***************************************************************************)
\* The digits that formatting produces: [0-9].
Digits == <<"0", "1", "2", "3", "4", "5", "6", "7", "8", "9">>

HexDigits == <<"0", "1", "2", "3", "4", "5", "6", "7", "8", "9",
               "A", "B", "C", "D", "E", "F">>

RECURSIVE HexText(_, _)
HexText(n, width) ==
    IF n = 0 /\ width <= 0 THEN ""
    ELSE HexText(n \div 16, width - 1) \o HexDigits[(n % 16) + 1]

\* The character of code point cp, for the characters written by code point.
Chr(cp) == "U+" \o HexText(cp, 4)

\* The code points of the zero digits of the scripts other than ASCII in
\* category Nd; the digits one to nine of a script follow its zero.
DecimalZeros ==
    {1632, 1776, 1984, 2406, 2534, 2662, 2790, 2918, 3046, 3174, 3302,
     3430, 3558, 3664, 3792, 3872, 4160, 4240, 6112, 6160, 6470, 6608,
     6784, 6800, 6992, 7088, 7232, 7248, 42528, 43216, 43264, 43472, 43504,
     43600, 44016, 65296, 66720, 68912, 69734, 69872, 69942, 70096, 70384,
     70736, 70864, 71248, 71360, 71472, 71904, 72016, 72784, 73040, 73120,
     92768, 92864, 93008, 120782, 120792, 120802, 120812, 120822, 123200,
     123632, 125264, 130032}

\* Every decimal digit with the value int() gives it.
DigitTable ==
    {<<Digits[v + 1], v>> : v \in 0..9}
    \cup {<<Chr(z + v), v>> : z \in DecimalZeros, v \in 0..9}

\* The characters \d matches in a str pattern: the decimal digits of every
\* script.
DigitSet == {e[1] : e \in DigitTable}

\* [1-9]
NonZeroDigitSet == {Digits[k] : k \in 2..10}

IsDigit(c) == c \in DigitSet

DigitVal(c) == (CHOOSE e \in DigitTable : e[1] = c)[2]

\* The character at position p, or "" past the end of the text.
At(s, p) == IF p >= 1 /\ p <= Len(s) THEN s[p] ELSE ""

\* int() of a run of decimal digits; a leading blank is skipped as int() does.
RECURSIVE NumVal(_)
NumVal(s) ==
    IF s = <<>> THEN 0
    ELSE IF Head(s) = " " THEN NumVal(Tail(s))
    ELSE NumVal(SubSeq(s, 1, Len(s) - 1)) * 10 + DigitVal(s[Len(s)])

Pad2(n) == <<Digits[(n \div 10) + 1], Digits[(n % 10) + 1]>>

Pad4(n) == <<Digits[(n \div 1000) + 1], Digits[((n \div 100) % 10) + 1],
             Digits[((n \div 10) % 10) + 1], Digits[(n % 10) + 1]>>

\* Decimal numeral without padding (the C library's %Y).
RECURSIVE NumText(_)
NumText(n) == IF n < 10 THEN <<Digits[n + 1]>>
              ELSE NumText(n \div 10) \o <<Digits[(n % 10) + 1]>>

(***************************************************************************)
(* datetime.date                                                           *)
(***************************************************************************)
MAXYEAR == 9999

NoDate == [y |-> 0, m |-> 0, d |-> 0]

MkDate(y, m, d) == [y |-> y, m |-> m, d |-> d]

IsLeap(y) == y % 4 = 0 /\ (y % 100 # 0 \/ y % 400 = 0)

DaysInMonth(y, m) ==
    IF m = 2 THEN (IF IsLeap(y) THEN 29 ELSE 28)
    ELSE IF m \in {4, 6, 9, 11} THEN 30 ELSE 31

IsValidDate(y, m, d) ==
    /\ y >= 1 /\ y <= MAXYEAR
    /\ m >= 1 /\ m <= 12
    /\ d >= 1 /\ d <= DaysInMonth(y, m)

\* d + timedelta(days=1); NoDate stands for OverflowError past date.max.
NextDay(dt) ==
    IF dt = NoDate THEN NoDate
    ELSE IF dt.d < DaysInMonth(dt.y, dt.m) THEN MkDate(dt.y, dt.m, dt.d + 1)
    ELSE IF dt.m < 12 THEN MkDate(dt.y, dt.m + 1, 1)
    ELSE IF dt.y < MAXYEAR THEN MkDate(dt.y + 1, 1, 1)
    ELSE NoDate

\* d + timedelta(days=n), n >= 0.
RECURSIVE AddDays(_, _)
AddDays(dt, n) == IF n = 0 THEN dt ELSE AddDays(NextDay(dt), n - 1)

\* A variant of isoformat that does not pad the year with zeros.
IsoformatShortYear(dt) ==
    NumText(dt.y) \o <<"-">> \o Pad2(dt.m) \o <<"-">> \o Pad2(dt.d)

\* date.isoformat(): "%04d-%02d-%02d".
Isoformat(dt) == Pad4(dt.y) \o <<"-">> \o Pad2(dt.m) \o <<"-">> \o Pad2(dt.d)

\* date.strftime('%d.%m.%Y'); the C library does not pad %Y.
StrftimeDMY(dt) == Pad2(dt.d) \o <<".">> \o Pad2(dt.m) \o <<".">> \o NumText(dt.y)

(***************************************************************************)
(* datetime.strptime(text, "%Y-%m-%d").date()                              *)
(* The format compiles to the regular expression                           *)
(*   (\d\d\d\d)-(1[0-2]|0[1-9]|[1-9])-(3[0-1]|[1-2]\d|0[1-9]|[1-9]| [1-9])   *)
(* matched from the start of the text; text left over after the match, a   *)
(* year of 0 and a day past the end of the month are all ValueError,       *)
(* which is the result NoDate here.                                        *)
(***************************************************************************)
MatchMonth(s, p) ==
    IF At(s, p) = "1" /\ At(s, p + 1) \in {"0", "1", "2"} THEN 2
    ELSE IF At(s, p) = "0" /\ At(s, p + 1) \in NonZeroDigitSet THEN 2
    ELSE IF At(s, p) \in NonZeroDigitSet THEN 1
    ELSE 0

MatchDay(s, p) ==
    IF At(s, p) = "3" /\ At(s, p + 1) \in {"0", "1"} THEN 2
    ELSE IF At(s, p) \in {"1", "2"} /\ IsDigit(At(s, p + 1)) THEN 2
    ELSE IF At(s, p) = "0" /\ At(s, p + 1) \in NonZeroDigitSet THEN 2
    ELSE IF At(s, p) \in NonZeroDigitSet THEN 1
    ELSE IF At(s, p) = " " /\ At(s, p + 1) \in NonZeroDigitSet THEN 2
    ELSE 0

Strptime(s) ==
    IF ~(\A k \in 1..4 : IsDigit(At(s, k))) \/ At(s, 5) # "-" THEN NoDate
    ELSE LET ml == MatchMonth(s, 6) IN
      IF ml = 0 \/ At(s, 6 + ml) # "-" THEN NoDate
      ELSE LET dp == 7 + ml
               dl == MatchDay(s, dp) IN
        IF dl = 0 THEN NoDate
        ELSE IF dp + dl - 1 # Len(s) THEN NoDate
        ELSE LET y == NumVal(SubSeq(s, 1, 4))
                 m == NumVal(SubSeq(s, 6, 5 + ml))
                 d == NumVal(SubSeq(s, dp, dp + dl - 1)) IN
          IF IsValidDate(y, m, d) THEN MkDate(y, m, d) ELSE NoDate

\* The characters str.isspace() holds of.
Whitespace ==
    {" ", "\t", "\n", "\r", "\f"}
    \cup {Chr(cp) : cp \in {11, 28, 29, 30, 31, 133, 160, 5760, 8232, 8233,
                           8239, 8287, 12288} \cup 8192..8202}

\* str.strip(): whitespace removed on both ends.
RECURSIVE Strip(_)
Strip(s) ==
    IF s = <<>> THEN s
    ELSE IF Head(s) \in Whitespace THEN Strip(Tail(s))
    ELSE IF s[Len(s)] \in Whitespace THEN Strip(SubSeq(s, 1, Len(s) - 1))
    ELSE s

\* Position of the first ":" of a text, 0 when it has none.
FirstColon(s) ==
    IF \E k \in 1..Len(s) : s[k] = ":"
    THEN CHOOSE k \in 1..Len(s) : s[k] = ":" /\ \A j \in 1..(k - 1) : s[j] # ":"
    ELSE 0

(***************************************************************************)
(* The calendrical engine (mayan_logic) and calc_day                       *)
(***************************************************************************)
\* A fault names the engine function that raises and the invocation of
\* calc_day (1st, 2nd, ... of the handler) in which it raises.
NoFault == [fn |-> "none", nth |-> 0]

\* The engine calls of calc_day, in the order the code makes them.
CalcDayCalls == <<"mayan_from_gregorian", "get_moon_phase", "classify_day",
                  "get_deep_profile", "get_crowd_state", "get_bot_mode",
                  "get_biorhythms", "get_training_recommendation",
                  "get_daily_schedule", "get_nutrition_profile",
                  "get_sumerian_profile">>

\* The engine calls of the crowd and mode branches of callback_handler.
CrowdCalls == <<"mayan_from_gregorian", "get_moon_phase", "get_crowd_state">>

ModeCalls == <<"mayan_from_gregorian", "get_moon_phase", "classify_day",
               "get_crowd_state", "get_bot_mode">>

EngineFns == {CalcDayCalls[k] : k \in 1..Len(CalcDayCalls)}

\* Index of the call of `calls` that raises under `fault`, 0 when none does.
FailIdx(calls, fault, nth) ==
    IF fault.nth = nth /\ \E k \in 1..Len(calls) : calls[k] = fault.fn
    THEN CHOOSE k \in 1..Len(calls) : calls[k] = fault.fn
    ELSE 0

\* The keys of the dict calc_day returns, each with the index of the engine
\* call (in CalcDayCalls) whose result it holds; "date" needs no call.
KeySource == [date |-> 0, tzolkin |-> 1, haab |-> 1, moon |-> 2, class |-> 3,
              deep |-> 4, crowd |-> 5, bot_mode |-> 6, bior |-> 7,
              training |-> 8, schedule |-> 9, nutrition |-> 10, sumerian |-> 11]

ProfileKeys == DOMAIN KeySource

NoProfile == [date |-> NoDate, keys |-> {}]

\* A variant of calc_day that swallows an engine failure and returns the
\* fields computed so far.
CalcDayPartial(d, fault, nth) ==
    LET f == FailIdx(CalcDayCalls, fault, nth) IN
    IF f = 0
    THEN [ok |-> TRUE, calls |-> Len(CalcDayCalls),
          profile |-> [date |-> d, keys |-> ProfileKeys]]
    ELSE [ok |-> TRUE, calls |-> f,
          profile |-> [date |-> d,
                       keys |-> {k \in ProfileKeys : KeySource[k] < f}]]

\* calc_day(d): every engine call in order; the first one that raises ends
\* the function with its exception and no dict is returned.
CalcDay(d, fault, nth) ==
    LET f == FailIdx(CalcDayCalls, fault, nth) IN
    IF f = 0
    THEN [ok |-> TRUE, calls |-> Len(CalcDayCalls),
          profile |-> [date |-> d, keys |-> ProfileKeys]]
    ELSE [ok |-> FALSE, calls |-> f, profile |-> NoProfile]

(***************************************************************************)
(* Formatting and keyboards                                                *)
(***************************************************************************)
NoText == [view |-> "none", shown |-> <<>>, profiles |-> <<>>]

HelpText == [view |-> "help", shown |-> <<>>, profiles |-> <<>>]

MenuText == [view |-> "menu", shown |-> <<>>, profiles |-> <<>>]

FormatDayText(p) ==
    [view |-> "day", shown |-> <<StrftimeDMY(p.date)>>, profiles |-> <<p>>]

FormatWeekText(days) ==
    IF days = <<>> THEN [view |-> "week", shown |-> <<>>, profiles |-> days]
    ELSE [view |-> "week",
          shown |-> <<StrftimeDMY(days[1].date), StrftimeDMY(days[Len(days)].date)>>,
          profiles |-> days]

CrowdText(d) ==
    [view |-> "crowd", shown |-> <<StrftimeDMY(d)>>,
     profiles |-> <<[date |-> d, keys |-> {"crowd"}]>>]

ModeText(d) ==
    [view |-> "mode", shown |-> <<StrftimeDMY(d)>>,
     profiles |-> <<[date |-> d, keys |-> {"class", "crowd", "bot_mode"}]>>]

TxtDay == <<"d", "a", "y">>

TxtWeek == <<"w", "e", "e", "k">>

TxtCrowd == <<"c", "r", "o", "w", "d">>

TxtMode == <<"m", "o", "d", "e">>

Actions == {TxtDay, TxtWeek, TxtCrowd, TxtMode}

\* f"{action}:{d.isoformat()}"
Token(action, d) == action \o <<":">> \o Isoformat(d)

BuildDayKeyboard(d) == <<Token(TxtCrowd, d), Token(TxtMode, d), Token(TxtWeek, d)>>

\* data.split(":", 1), when it yields two parts.
SplitAction(data) == SubSeq(data, 1, FirstColon(data) - 1)

SplitPayload(data) == SubSeq(data, FirstColon(data) + 1, Len(data))

(***************************************************************************)
(* Date resolution                                                         *)
(***************************************************************************)
\* parse_date_arg: None (here NoDate) without arguments or on ValueError.
ParseDateArg(args) == IF args = <<>> THEN NoDate ELSE Strptime(args[1])

\* A variant that falls back to date.min instead of today.
CallbackDateMin(payload, today) ==
    IF Strptime(payload) = NoDate THEN MkDate(1, 1, 1) ELSE Strptime(payload)

\* The payload's date in callback_handler: strptime, today on ValueError.
CallbackDate(payload, today) ==
    IF Strptime(payload) = NoDate THEN today ELSE Strptime(payload)

(***************************************************************************)
(* The views: what a handler computes between reading its date and its     *)
(* transport call.  exc is the exception that ends the computation.        *)
(***************************************************************************)
WeekLen == 7

Failure(exc, calls) == [exc |-> exc, calls |-> calls, text |-> NoText, kb |-> <<>>]

DayView(d, fault) ==
    LET r == CalcDay(d, fault, 1) IN
    IF r.ok
    THEN [exc |-> "none", calls |-> r.calls,
          text |-> FormatDayText(r.profile), kb |-> BuildDayKeyboard(d)]
    ELSE Failure("EngineError", r.calls)

\* for i in range(7): d = start_date + timedelta(days=i); days.append(calc_day(d))
RECURSIVE WeekLoop(_, _, _, _, _)
WeekLoop(start, fault, i, days, calls) ==
    IF i = WeekLen THEN [exc |-> "none", calls |-> calls, days |-> days]
    ELSE LET d == AddDays(start, i) IN
      IF d = NoDate THEN [exc |-> "OverflowError", calls |-> calls, days |-> days]
      ELSE LET r == CalcDay(d, fault, i + 1) IN
        IF ~r.ok
        THEN [exc |-> "EngineError", calls |-> calls + r.calls, days |-> days]
        ELSE WeekLoop(start, fault, i + 1, Append(days, r.profile), calls + r.calls)

WeekView(start, fault) ==
    LET w == WeekLoop(start, fault, 0, <<>>, 0) IN
    IF w.exc = "none"
    THEN [exc |-> "none", calls |-> w.calls,
          text |-> FormatWeekText(w.days), kb |-> <<>>]
    ELSE Failure(w.exc, w.calls)

CrowdView(d, fault) ==
    LET f == FailIdx(CrowdCalls, fault, 1) IN
    IF f = 0
    THEN [exc |-> "none", calls |-> Len(CrowdCalls), text |-> CrowdText(d), kb |-> <<>>]
    ELSE Failure("EngineError", f)

ModeView(d, fault) ==
    LET f == FailIdx(ModeCalls, fault, 1) IN
    IF f = 0
    THEN [exc |-> "none", calls |-> Len(ModeCalls), text |-> ModeText(d), kb |-> <<>>]
    ELSE Failure("EngineError", f)

(***************************************************************************)
(* State                                                                   *)
(***************************************************************************)
VARIABLES
    botToken,      \* BOT_TOKEN, read from the environment at import
    mainPc,        \* "init", "returned" (main returned at once) or "polling"
    printed,       \* what main printed
    exitStatus,    \* the process's exit status, -1 while it runs
    app,           \* the Application: its token, handlers and job queue
    pollingSince,  \* the day (clock value) run_polling was entered, 0 before
    dispatched,    \* messages pushed to TELEGRAM_CHAT_ID by scheduled jobs
    clock,         \* the platform clock's calendar day, as a day number
    h              \* the handler invocations, one per slot

vars == <<botToken, mainPc, printed, exitStatus, app, pollingSince, dispatched, clock, h>>

\* Handler invocations that may be in flight together.
Slots == {1, 2}

\* The number of midnights the clock may cross.
MaxTicks == 2

\* The calendar day of clock value 1.
StartDay == MkDate(2025, 2, 27)

\* date.today()
Today == AddDays(StartDay, clock - 1)

(***************************************************************************)
(* Inputs                                                                  *)
(***************************************************************************)
TokenChoices == {<<>>, <<" ", "\t", "\r", "\n">>, <<" ", "t", "k", "\n">>}

\* First arguments of /day and /week.
ArgTexts == {<<"2", "0", "2", "5", "-", "0", "2", "-", "2", "8">>,
            <<"2", "0", "2", "4", "-", "0", "2", "-", "2", "9">>,
            <<"9", "9", "9", "9", "-", "1", "2", "-", "2", "8">>,
            <<"2", "0", "2", "5", "-", "2", "-", "5">>,
            <<"2", "0", "2", "5", "-", "0", "2", "-", "3", "0">>,
            <<"2", "0", "2", "5", "-", "0", "2", "-", "2", "9">>,
            <<"2", "0", "2", "5", "-", "1", "3", "-", "0", "1">>,
            <<"2", "0", "2", "5", "-", "0", "2", "-", "0", "5", "1">>,
            <<"0", "0", "0", "0", "-", "0", "1", "-", "0", "1">>,
            <<"U+0662", "U+0660", "U+0662", "U+0665", "-", "0", "2", "-", "2", "8">>,
            <<"2", "0", "2", "5", "-", "0", "2", "-", "2", "U+0668">>,
            <<"2", "0", "2", "5", "-", "U+0660", "U+0662", "-", "2", "8">>,
            <<"n", "o", "t", "-", "a", "-", "d", "a", "t", "e">>}

ArgChoices == {<<>>} \cup {<<t>> : t \in ArgTexts}
              \cup {<<<<"n", "o", "t", "-", "a", "-", "d", "a", "t", "e">>, <<"2", "0", "2", "5", "-", "0", "2", "-", "2", "8">>>>}

\* Dates whose tokens the keyboards carry.
TokenDates == {MkDate(5, 3, 7),
              MkDate(2024, 2, 29),
              MkDate(2025, 2, 28),
              MkDate(2025, 12, 31),
              MkDate(9999, 12, 25),
              MkDate(9999, 12, 28),
              MkDate(9999, 12, 31)}

\* Payloads no keyboard produces.
OddPayloads == {<<"2", "0", "2", "5", "-", "2", "-", "5">>,
               <<"2", "0", "2", "5", "-", "0", "2", "-", " ", "5">>,
               <<"2", "0", "2", "5", "-", "0", "2", "-", "3", "0">>,
               <<"2", "0", "2", "5", "-", "0", "2", "-", "0", "5", "1">>,
               <<"0", "0", "0", "0", "-", "0", "1", "-", "0", "1">>,
               <<"U+0662", "U+0660", "U+0662", "U+0665", "-", "0", "2", "-", "2", "8">>,
               <<"2", "0", "2", "5", "-", "0", "2", "-", "1", "U+FF15">>,
               <<"2", "0", "2", "5", "-", "0", "2", "-", "0", "U+FF15">>,
               <<"n", "o", "t", "-", "a", "-", "d", "a", "t", "e">>,
               <<>>,
               <<"2", "0", "2", "5", "-", "0", "2", "-", "2", "8", ":", "x">>}

Payloads == {Isoformat(d) : d \in TokenDates} \cup OddPayloads

TxtFoo == <<"f", "o", "o">>

\* Callback data without a ":".
PlainData == {<<>>, TxtDay, <<"2", "0", "2", "5", "-", "0", "2", "-", "2", "8">>}

Faults(nths) == {NoFault} \cup [fn : EngineFns, nth : nths]

NoReq == [kind |-> "none", args |-> <<>>, hasMsg |-> FALSE, hasQuery |-> FALSE,
          data |-> <<>>, fault |-> NoFault]

Cmd(kind, args, hasMsg, fault) ==
    [kind |-> kind, args |-> args, hasMsg |-> hasMsg, hasQuery |-> FALSE,
     data |-> <<>>, fault |-> fault]

Cb(data, fault) ==
    [kind |-> "callback", args |-> <<>>, hasMsg |-> FALSE, hasQuery |-> TRUE,
     data |-> data, fault |-> fault]

\* An update handed to callback_handler that carries no callback query.
CbNoQuery == [Cb(<<>>, NoFault) EXCEPT !.hasQuery = FALSE]

Requests ==
    {Cmd(k, <<>>, m, NoFault) : k \in {"start", "menu"}, m \in BOOLEAN}
    \cup {Cmd("day", a, m, f) : a \in ArgChoices, m \in BOOLEAN, f \in Faults({1})}
    \cup {Cmd("week", a, TRUE, f) : a \in ArgChoices, f \in Faults(1..WeekLen)}
    \cup {Cmd("week", a, FALSE, NoFault) : a \in ArgChoices}
    \cup {Cb(a \o <<":">> \o p, f) :
            a \in {TxtDay, TxtCrowd, TxtMode}, p \in Payloads, f \in Faults({1})}
    \cup {Cb(TxtWeek \o <<":">> \o p, f) : p \in Payloads, f \in Faults(1..WeekLen)}
    \cup {Cb(a \o <<":">> \o p, f) :
            a \in {TxtFoo, <<>>}, p \in Payloads, f \in {NoFault, [fn |-> "get_moon_phase", nth |-> 1]}}
    \cup {Cb(t, NoFault) : t \in PlainData}
    \cup {CbNoQuery}

BiorFault(n) == [fn |-> "get_biorhythms", nth |-> n]

\* The updates of the interleaved specification.
ConcRequests ==
    {Cmd("start", <<>>, TRUE, NoFault), Cmd("menu", <<>>, TRUE, NoFault),
     Cmd("day", <<>>, TRUE, NoFault),
     Cmd("day", <<<<"2", "0", "2", "5", "-", "0", "2", "-", "3", "0">>>>, TRUE, BiorFault(1)),
     Cmd("week", <<<<"9", "9", "9", "9", "-", "1", "2", "-", "2", "8">>>>, TRUE, NoFault),
     Cmd("week", <<>>, FALSE, NoFault),
     Cb(Token(TxtDay, MkDate(2025, 2, 28)), NoFault),
     Cb(Token(TxtWeek, MkDate(2025, 12, 31)), BiorFault(2)),
     Cb(TxtCrowd \o <<":">> \o <<"2", "0", "2", "5", "-", "2", "-", "5">>, NoFault),
     Cb(TxtMode \o <<":">> \o <<"n", "o", "t", "-", "a", "-", "d", "a", "t", "e">>, NoFault),
     Cb(TxtFoo \o <<":">> \o <<"2", "0", "2", "5", "-", "0", "2", "-", "2", "8">>, NoFault),
     Cb(TxtDay, NoFault)}

(***************************************************************************)
(* Initial state                                                           *)
(***************************************************************************)
\* The value of `action` before data.split assigns it.
NoAction == <<"?">>

IdleSlot == [pc |-> "idle", req |-> NoReq, action |-> NoAction, todays |-> <<>>,
             d |-> NoDate, calls |-> 0, exc |-> "none", out |-> <<>>]

Init ==
    /\ botToken \in TokenChoices
    /\ mainPc = "init"
    /\ printed = "nothing"
    /\ exitStatus = -1
    /\ app = [token |-> <<>>, handlers |-> <<>>, jobs |-> {}]
    /\ pollingSince = 0
    /\ dispatched = <<>>
    /\ clock = 1
    /\ h = [i \in Slots |-> IdleSlot]

(***************************************************************************)
(* main                                                                    *)
(***************************************************************************)
\* not BOT_TOKEN or BOT_TOKEN.strip() == ""
TokenMissing(token) == token = <<>> \/ Strip(token) = <<>>

\* main prints the error and returns; the script then ends normally.
MainRefuse ==
    /\ mainPc = "init"
    /\ TokenMissing(botToken)
    /\ printed' = "token_missing"
    /\ mainPc' = "returned"
    /\ exitStatus' = 0
    /\ UNCHANGED <<botToken, app, pollingSince, dispatched, clock, h>>

\* main builds the application, adds the five handlers and polls.
MainStart ==
    /\ mainPc = "init"
    /\ ~TokenMissing(botToken)
    /\ app' = [token |-> Strip(botToken),
               handlers |-> <<"start", "day", "week", "menu", "callback">>,
               jobs |-> {}]
    /\ printed' = "started"
    /\ mainPc' = "polling"
    /\ pollingSince' = clock
    /\ UNCHANGED <<botToken, exitStatus, dispatched, clock, h>>

\* Midnight passes.
Tick ==
    /\ clock <= MaxTicks
    /\ clock' = clock + 1
    /\ UNCHANGED <<botToken, mainPc, printed, exitStatus, app, pollingSince, dispatched, h>>

(***************************************************************************)
(* Handlers                                                                *)
(***************************************************************************)
Rest == <<botToken, mainPc, printed, exitStatus, app, pollingSince, dispatched, clock>>

\* A variant in which handlers read the update from one shared place.
UpdateOfShared(i) == h[CHOOSE j \in Slots : h[j].pc \notin {"idle", "done", "raised"}].req

\* The update and context a handler invocation was called with.
UpdateOf(i) == h[i].req

\* The application hands an update to its handler.
StartRequest(i, r) ==
    /\ mainPc = "polling"
    /\ h[i].pc = "idle"
    /\ h' = [h EXCEPT ![i] = [IdleSlot EXCEPT !.pc = "run", !.req = r]]
    /\ UNCHANGED Rest

Op(op, text, kb) == [op |-> op, text |-> text, kb |-> kb]

\* The state of an invocation after it computed view v and, when `send`,
\* called the transport with it.
Conclude(slot, todays, d, v, op, send) ==
    [slot EXCEPT !.todays = todays, !.d = d, !.calls = v.calls, !.exc = v.exc,
                 !.out = IF v.exc = "none" /\ send
                         THEN Append(slot.out, Op(op, v.text, v.kb)) ELSE slot.out,
                 !.pc = IF v.exc # "none" THEN "raised"
                        ELSE IF send THEN "await" ELSE "done"]

StaticView(text, kb) == [exc |-> "none", calls |-> 0, text |-> text, kb |-> kb]

StartCmd(i) ==
    /\ h[i].pc = "run"
    /\ UpdateOf(i).kind = "start"
    /\ h' = [h EXCEPT ![i] = Conclude(@, <<>>, NoDate, StaticView(HelpText, <<>>),
                                      "reply", UpdateOf(i).hasMsg)]
    /\ UNCHANGED Rest

\* parse_date_arg(args) or date.today(): the clock is read only on None.
CommandReads(args, today) == IF ParseDateArg(args) = NoDate THEN <<today>> ELSE <<>>

CommandDate(args, today) ==
    IF ParseDateArg(args) = NoDate THEN today ELSE ParseDateArg(args)

DayCmd(i) ==
    /\ h[i].pc = "run"
    /\ UpdateOf(i).kind = "day"
    /\ LET u == UpdateOf(i)
           d == CommandDate(u.args, Today) IN
       h' = [h EXCEPT ![i] = Conclude(@, CommandReads(u.args, Today), d,
                                      DayView(d, u.fault), "reply", u.hasMsg)]
    /\ UNCHANGED Rest

WeekCmd(i) ==
    /\ h[i].pc = "run"
    /\ UpdateOf(i).kind = "week"
    /\ LET u == UpdateOf(i)
           d == CommandDate(u.args, Today) IN
       h' = [h EXCEPT ![i] = Conclude(@, CommandReads(u.args, Today), d,
                                      WeekView(d, u.fault), "reply", u.hasMsg)]
    /\ UNCHANGED Rest

\* menu_cmd evaluates date.today() once for each of its two buttons.
MenuFirstButton(i) ==
    /\ h[i].pc = "run"
    /\ UpdateOf(i).kind = "menu"
    /\ h' = [h EXCEPT ![i].todays = <<Today>>, ![i].pc = "menu2"]
    /\ UNCHANGED Rest

MenuKeyboard(first, second) == <<Token(TxtDay, first), Token(TxtWeek, second)>>

MenuSecondButton(i) ==
    /\ h[i].pc = "menu2"
    /\ h' = [h EXCEPT ![i] =
               Conclude(@, Append(h[i].todays, Today), NoDate,
                        StaticView(MenuText, MenuKeyboard(h[i].todays[1], Today)),
                        "reply", UpdateOf(i).hasMsg)]
    /\ UNCHANGED Rest

\* callback_handler up to its first await: return without a query, else
\* call query.answer() and wait for it.
CallbackAnswer(i) ==
    /\ h[i].pc = "run"
    /\ UpdateOf(i).kind = "callback"
    /\ h' = [h EXCEPT ![i].out = IF UpdateOf(i).hasQuery
                                 THEN <<Op("answer", NoText, <<>>)>> ELSE <<>>,
                      ![i].pc = IF UpdateOf(i).hasQuery THEN "answered" ELSE "done"]
    /\ UNCHANGED Rest

\* data.split(":", 1) yields one part, or an action no branch handles.
CallbackIgnore(i) ==
    /\ h[i].pc = "answered"
    /\ LET data == UpdateOf(i).data IN
       FirstColon(data) = 0 \/ SplitAction(data) \notin Actions
    /\ h' = [h EXCEPT ![i].pc = "done",
                      ![i].action = IF FirstColon(UpdateOf(i).data) = 0 THEN NoAction
                                    ELSE SplitAction(UpdateOf(i).data)]
    /\ UNCHANGED Rest

\* The computation of the branch that handles `action`.
BranchView(action, d, fault) ==
    IF action = TxtDay THEN DayView(d, fault)
    ELSE IF action = TxtWeek THEN WeekView(d, fault)
    ELSE IF action = TxtCrowd THEN CrowdView(d, fault)
    ELSE ModeView(d, fault)

\* One of the four branches: the payload's date, the view, the edit.
CallbackBranch(i, action) ==
    /\ h[i].pc = "answered"
    /\ LET u == UpdateOf(i)
           payload == SplitPayload(u.data)
           d == CallbackDate(payload, Today) IN
       /\ FirstColon(u.data) # 0
       /\ SplitAction(u.data) = action
       /\ h' = [h EXCEPT ![i] =
                  Conclude([h[i] EXCEPT !.action = action],
                           IF Strptime(payload) = NoDate THEN <<Today>> ELSE <<>>,
                           d, BranchView(action, d, u.fault), "edit", TRUE)]
    /\ UNCHANGED Rest

CallbackDay(i) == CallbackBranch(i, TxtDay)

CallbackWeek(i) == CallbackBranch(i, TxtWeek)

CallbackCrowd(i) == CallbackBranch(i, TxtCrowd)

CallbackMode(i) == CallbackBranch(i, TxtMode)

\* await query.answer() raises a transport error: nothing catches it, and
\* the handler ends there, before data.split.
AnswerRaises(i) ==
    /\ h[i].pc = "answered"
    /\ h' = [h EXCEPT ![i].pc = "raised", ![i].exc = "TransportError"]
    /\ UNCHANGED Rest

\* The awaited reply_text or edit_message_text ends: it completes and the
\* handler returns, or it raises a transport error that nothing catches.
Return(i) ==
    /\ h[i].pc = "await"
    /\ \/ h' = [h EXCEPT ![i].pc = "done"]
       \/ h' = [h EXCEPT ![i].pc = "raised", ![i].exc = "TransportError"]
    /\ UNCHANGED Rest

\* The application is done with the invocation (returned or raised).
Release(i) ==
    /\ h[i].pc \in {"done", "raised"}
    /\ h' = [h EXCEPT ![i] = IdleSlot]
    /\ UNCHANGED Rest

Handle(i) ==
    \/ StartCmd(i)
    \/ DayCmd(i)
    \/ WeekCmd(i)
    \/ MenuFirstButton(i)
    \/ MenuSecondButton(i)
    \/ CallbackAnswer(i)
    \/ AnswerRaises(i)
    \/ CallbackIgnore(i)
    \/ CallbackDay(i)
    \/ CallbackWeek(i)
    \/ CallbackCrowd(i)
    \/ CallbackMode(i)
    \/ Return(i)
    \/ Release(i)

(***************************************************************************)
(* Specifications                                                          *)
(***************************************************************************)
\* Updates are processed one at a time (the application's default).
Receive == \E r \in Requests : StartRequest(1, r)

Next ==
    \/ MainRefuse
    \/ MainStart
    \/ Tick
    \/ Receive
    \/ Handle(1)

Spec == Init /\ [][Next]_vars

\* Handlers interleave at their awaits.
ConcReceive == \E i \in Slots : \E r \in ConcRequests : StartRequest(i, r)

ConcNext ==
    \/ MainRefuse
    \/ MainStart
    \/ Tick
    \/ ConcReceive
    \/ \E i \in Slots : Handle(i)

SpecConc == Init /\ [][ConcNext]_vars

(***************************************************************************)
(* Vocabulary of the properties                                            *)
(***************************************************************************)
\* The invocation has run up to its transport call, its return or its raise.
Ran(s) == s.pc \in {"await", "done", "raised"}

IsDateCmd(s) == s.req.kind \in {"day", "week"}

\* A callback invocation that has decoded its data into one of the four actions.
IsRoutedCallback(s) == s.req.kind = "callback" /\ s.action \in Actions /\ Ran(s)

PayloadOf(s) == SplitPayload(s.req.data)

OpsOf(s, op) == {k \in 1..Len(s.out) : s.out[k].op = op}

\* The days the clock has shown so far.
ClockDays == {AddDays(StartDay, k - 1) : k \in 1..clock}

\* The invocation read the clock exactly once and uses the day it read.
UsesToday(s) == Len(s.todays) = 1 /\ s.todays[1] \in ClockDays /\ s.d = s.todays[1]

AllDigits(t) == \A k \in 1..Len(t) : IsDigit(t[k])

AllAsciiDigits(t) == \A k \in 1..Len(t) : \E v \in 1..10 : t[k] = Digits[v]

Dashes(s) == {k \in 1..Len(s) : s[k] = "-"}

FieldY(s) == SubSeq(s, 1, (CHOOSE k \in Dashes(s) : \A j \in Dashes(s) : k <= j) - 1)

FieldM(s) == SubSeq(s, (CHOOSE k \in Dashes(s) : \A j \in Dashes(s) : k <= j) + 1,
                       (CHOOSE k \in Dashes(s) : \A j \in Dashes(s) : k >= j) - 1)

FieldD(s) == SubSeq(s, (CHOOSE k \in Dashes(s) : \A j \in Dashes(s) : k >= j) + 1, Len(s))

\* The text is year-month-day and names a day of the calendar.  The year
\* is four decimal digits of any script; the month is one or two digits of
\* ASCII; the day is one or two digits of ASCII, or 1 or 2 and a decimal
\* digit of any script, or a blank and a digit 1 to 9 of ASCII.
ReadsAsDate(s) ==
    /\ Cardinality(Dashes(s)) = 2
    /\ Len(FieldY(s)) = 4 /\ AllDigits(FieldY(s))
    /\ Len(FieldM(s)) \in {1, 2} /\ AllAsciiDigits(FieldM(s))
    /\ \/ Len(FieldD(s)) \in {1, 2} /\ AllAsciiDigits(FieldD(s))
       \/ Len(FieldD(s)) = 2 /\ FieldD(s)[1] \in {"1", "2"} /\ IsDigit(FieldD(s)[2])
       \/ Len(FieldD(s)) = 2 /\ FieldD(s)[1] = " " /\ FieldD(s)[2] \in NonZeroDigitSet
    /\ IsValidDate(NumVal(FieldY(s)), NumVal(FieldM(s)), NumVal(FieldD(s)))

DateNamed(s) == MkDate(NumVal(FieldY(s)), NumVal(FieldM(s)), NumVal(FieldD(s)))

\* The strict pattern YYYY-MM-DD, in the digits 0 to 9, naming a day of the
\* calendar.
StrictDateText(s) ==
    /\ Len(s) = 10 /\ ReadsAsDate(s) /\ s[5] = "-" /\ s[8] = "-"
    /\ AllAsciiDigits(FieldY(s)) /\ AllAsciiDigits(FieldD(s))

\* The invocation ended in its acknowledgement: query.answer() raised.
AnswerFailed(s) ==
    s.req.kind = "callback" /\ s.exc = "TransportError" /\ Len(s.out) = 1

\* The view a command or a routed callback renders.
ViewOf(s) ==
    IF s.req.kind # "callback" THEN s.req.kind
    ELSE IF s.action = TxtDay THEN "day"
    ELSE IF s.action = TxtWeek THEN "week"
    ELSE IF s.action = TxtCrowd THEN "crowd"
    ELSE "mode"

\* The text is the named view rendered for day d (for a week, d to d + 6).
RendersViewFor(text, view, d) ==
    /\ text.view = view
    /\ Len(text.profiles) = (IF view = "week" THEN WeekLen ELSE 1)
    /\ \A k \in 1..Len(text.profiles) : text.profiles[k].date = AddDays(d, k - 1)
    /\ text.shown[1] = StrftimeDMY(d)

(***************************************************************************)
(* C1.  Command path, argument present but not a date.                     *)
(***************************************************************************)
\* C1 as stated: whenever /day or /week is given an argument that is not a
\* strict YYYY-MM-DD calendar date, the handler ends in a parse error: no
\* engine function is called, no date is resolved and no report is sent.
C1_ParseErrorNoEngineCall ==
    \A i \in Slots :
        (IsDateCmd(h[i]) /\ Ran(h[i]) /\ h[i].req.args # <<>>
            /\ ~StrictDateText(h[i].req.args[1]))
        => /\ h[i].calls = 0
           /\ h[i].d = NoDate
           /\ \A k \in 1..Len(h[i].out) : h[i].out[k].text.view \notin {"day", "week"}

(***************************************************************************)
(* C2.  Callback path, payload that is not a date.                         *)
(***************************************************************************)
\* C2: for each of the actions day, week, crowd and mode, a payload that
\* does not read as a date is not an error: the router reads today's date
\* and uses it, the handler edits the message with the action's view of
\* today, and the only ways it can raise are an engine call that raised and
\* the edit itself raising in the transport.
C2_BadPayloadUsesToday ==
    \A i \in Slots :
        (IsRoutedCallback(h[i]) /\ ~ReadsAsDate(PayloadOf(h[i])))
        => /\ UsesToday(h[i])
           /\ h[i].exc \in {"none", "EngineError", "TransportError"}
           /\ h[i].exc = "EngineError" => h[i].req.fault # NoFault
           /\ h[i].exc # "EngineError"
                => /\ Len(h[i].out) = 2
                   /\ h[i].out[2].op = "edit"
                   /\ RendersViewFor(h[i].out[2].text, ViewOf(h[i]), h[i].todays[1])

\* The callback "mode:not-a-date" was answered by the mode view of today.
C2_Witness ==
    \E i \in Slots :
        /\ h[i].req.data = TxtMode \o <<":">> \o <<"n", "o", "t", "-", "a", "-", "d", "a", "t", "e">>
        /\ h[i].pc = "await"
        /\ h[i].out[2] = Op("edit", ModeText(Today), <<>>)

(***************************************************************************)
(* C8.  Navigation tokens.                                                 *)
(***************************************************************************)
\* Every token attached to a sent message decodes to one of the four
\* actions and to the day the sender used for it.
TokensDecode(s) ==
    \A k \in 1..Len(s.out) :
        LET kb == s.out[k].kb IN
        \A t \in 1..Len(kb) :
            /\ FirstColon(kb[t]) # 0
            /\ SplitAction(kb[t]) \in Actions
            /\ CallbackDate(SplitPayload(kb[t]), NoDate) =
                 (IF s.out[k].text.view = "menu" THEN s.todays[t] ELSE s.d)

\* A callback whose data is the token of action a and day d is, once its
\* acknowledgement went through, routed to a with the date d, without
\* reading the clock.
TokenRoundTrip(s) ==
    \A a \in Actions : \A d \in TokenDates :
        (s.req.kind = "callback" /\ s.req.data = Token(a, d)
            /\ s.pc \in {"await", "done", "raised"} /\ ~AnswerFailed(s))
        => s.action = a /\ s.d = d /\ s.todays = <<>>

\* C8 as stated: tokens round-trip, and any payload that does not match the
\* strict YYYY-MM-DD pattern decodes to the fallback today.
C8_StrictPatternOrToday ==
    \A i \in Slots :
        /\ TokenRoundTrip(h[i])
        /\ TokensDecode(h[i])
        /\ (IsRoutedCallback(h[i]) /\ ~StrictDateText(PayloadOf(h[i])))
             => UsesToday(h[i])

\* C8 amended: tokens round-trip; a payload that reads as a date (also with
\* a one-digit month or day, as in 2025-2-5, or with decimal digits of
\* another script in its year) decodes to that date, and any other payload
\* decodes to the fallback today.
C8_TokensRoundTrip ==
    \A i \in Slots :
        /\ TokenRoundTrip(h[i])
        /\ TokensDecode(h[i])
        /\ IsRoutedCallback(h[i]) =>
             IF ReadsAsDate(PayloadOf(h[i]))
             THEN h[i].d = DateNamed(PayloadOf(h[i])) /\ h[i].todays = <<>>
             ELSE UsesToday(h[i])

\* The token "week:0005-03-07" was routed to the week view of 7 March of year 5.
C8_Witness ==
    \E i \in Slots :
        /\ h[i].req.data = Token(TxtWeek, MkDate(5, 3, 7))
        /\ h[i].pc = "await"
        /\ h[i].action = TxtWeek
        /\ h[i].d = MkDate(5, 3, 7)
        /\ h[i].out[2].text.view = "week"

(***************************************************************************)
(* C3.  What one callback does to the chat.                                *)
(***************************************************************************)
\* C3 as stated, for invocations in which every engine call answers: a
\* handled callback has sent no new message and was acknowledged; it has
\* edited the message exactly once when its action is day, week, crowd or
\* mode, and otherwise has made no edit and no engine call.
C3_EditsExactlyOnce ==
    \A i \in Slots :
        (h[i].req.kind = "callback" /\ h[i].req.hasQuery
            /\ h[i].req.fault = NoFault /\ h[i].pc \in {"done", "raised"})
        => /\ OpsOf(h[i], "reply") = {}
           /\ Cardinality(OpsOf(h[i], "answer")) = 1
           /\ IF h[i].action \in Actions
              THEN Cardinality(OpsOf(h[i], "edit")) = 1
              ELSE OpsOf(h[i], "edit") = {} /\ h[i].calls = 0

(***************************************************************************)
(* C4.  Startup without a token.                                           *)
(***************************************************************************)
\* C4 as stated: with an empty or whitespace-only BOT_TOKEN the process ends at
\* startup with the descriptive message and a non-zero exit status, having
\* registered no handler and never polling.
C4_RefusesWithNonZeroStatus ==
    (mainPc # "init" /\ \A k \in 1..Len(botToken) : botToken[k] \in Whitespace)
    => /\ mainPc = "returned"
       /\ printed = "token_missing"
       /\ app.handlers = <<>>
       /\ exitStatus > 0

(***************************************************************************)
(* C5.  Engine failures at the handler boundary.                           *)
(***************************************************************************)
\* C5 as stated: when an engine call raises while a handler computes, the
\* handler catches it: the exception does not leave the handler and the
\* user is sent a "could not compute" message.
C5_EngineFailureCaught ==
    \A i \in Slots :
        h[i].exc = "EngineError"
        => /\ h[i].pc # "raised"
           /\ \E k \in 1..Len(h[i].out) : h[i].out[k].text.view = "could_not_compute"

(***************************************************************************)
(* C6.  Aggregation is atomic.                                             *)
(***************************************************************************)
\* The invocation computes day profiles with calc_day.
UsesCalcDay(s) ==
    \/ IsDateCmd(s)
    \/ s.req.kind = "callback" /\ s.action \in {TxtDay, TxtWeek}

\* C6: every day or week text handed to the transport is built from
\* complete profiles only (one for a day, 7 for a week, each with every key
\* of calc_day's dict), and when one engine call of calc_day raises, for any
\* of the days, the handler sends or edits nothing.
C6_NoPartialProfile ==
    \A i \in Slots :
        /\ \A k \in 1..Len(h[i].out) :
             LET text == h[i].out[k].text IN
             text.view \in {"day", "week"}
             => /\ Len(text.profiles) = (IF text.view = "week" THEN WeekLen ELSE 1)
                /\ \A n \in 1..Len(text.profiles) : text.profiles[n].keys = ProfileKeys
        /\ (UsesCalcDay(h[i]) /\ Ran(h[i]) /\ h[i].req.fault.fn \in EngineFns
              /\ h[i].req.fault.nth \in 1..(IF ViewOf(h[i]) = "week" THEN WeekLen ELSE 1))
           => /\ h[i].pc = "raised"
              /\ OpsOf(h[i], "reply") \cup OpsOf(h[i], "edit") = {}

\* A week callback whose biorhythm call raised on the fifth day ended with
\* the acknowledgement alone.
C6_Witness ==
    \E i \in Slots :
        /\ h[i].req.kind = "callback"
        /\ h[i].action = TxtWeek
        /\ h[i].req.fault = BiorFault(5)
        /\ h[i].pc = "raised"
        /\ h[i].calls = 4 * Len(CalcDayCalls) + 7
        /\ h[i].out = <<Op("answer", NoText, <<>>)>>

(***************************************************************************)
(* C7.  The daily report.                                                  *)
(***************************************************************************)
ReportsOn(k) == Cardinality({n \in 1..Len(dispatched) : dispatched[n].day = k})

\* C7 as stated: every calendar day that began and ended while the process
\* was polling got exactly one report, and no day got two.
C7_OneReportPerDay ==
    mainPc = "polling"
    => \A k \in 1..clock :
         /\ ReportsOn(k) <= 1
         /\ (k > pollingSince /\ k < clock) => ReportsOn(k) = 1

(***************************************************************************)
(* C10.  One date per invocation.                                          *)
(***************************************************************************)
\* The days an invocation put into what it sent: the day of its day text
\* and the day of every token it attached.
DatesSent(s) ==
    UNION {
        {CallbackDate(SplitPayload(s.out[k].kb[t]), NoDate) : t \in 1..Len(s.out[k].kb)}
        \cup (IF s.out[k].text.view = "day"
              THEN {s.out[k].text.profiles[1].date} ELSE {})
        : k \in 1..Len(s.out)}

\* C10 as stated: an invocation that defaulted to today put one and the
\* same day into its text and into all of its tokens.
C10_OneDatePerInvocation ==
    \A i \in Slots :
        (Ran(h[i]) /\ h[i].todays # <<>>) => Cardinality(DatesSent(h[i])) <= 1

(***************************************************************************)
(* C9.  Handlers do not interfere.                                         *)
(***************************************************************************)
\* The transport call of the invocation that raised: its acknowledgement,
\* its reply or edit, or none.
FailedCall(s) ==
    IF s.exc # "TransportError" THEN "none"
    ELSE IF AnswerFailed(s) THEN "answer" ELSE "send"

\* The invocation as it is when the transport call it waits for raises.
TransportRaised(s) == [s EXCEPT !.pc = "raised", !.exc = "TransportError"]

\* What an invocation of update r comes to when it runs with nothing else
\* in flight, reads the days `todays` from the clock and all its transport
\* calls complete.
AloneSent(r, todays) ==
    LET s0 == [IdleSlot EXCEPT !.pc = "run", !.req = r]
        today == IF todays = <<>> THEN NoDate ELSE todays[Len(todays)]
        answered == [s0 EXCEPT !.out = <<Op("answer", NoText, <<>>)>>]
        action == IF FirstColon(r.data) = 0 THEN NoAction ELSE SplitAction(r.data)
        cbDate == CallbackDate(SplitPayload(r.data), today)
    IN
    IF r.kind = "start"
    THEN Conclude(s0, <<>>, NoDate, StaticView(HelpText, <<>>), "reply", r.hasMsg)
    ELSE IF r.kind = "day"
    THEN Conclude(s0, todays, CommandDate(r.args, today),
                  DayView(CommandDate(r.args, today), r.fault), "reply", r.hasMsg)
    ELSE IF r.kind = "week"
    THEN Conclude(s0, todays, CommandDate(r.args, today),
                  WeekView(CommandDate(r.args, today), r.fault), "reply", r.hasMsg)
    ELSE IF r.kind = "menu"
    THEN Conclude(s0, todays, NoDate,
                  StaticView(MenuText, MenuKeyboard(todays[1], todays[2])),
                  "reply", r.hasMsg)
    ELSE IF ~r.hasQuery THEN [s0 EXCEPT !.pc = "done"]
    ELSE IF action \notin Actions THEN [answered EXCEPT !.pc = "done", !.action = action]
    ELSE Conclude([answered EXCEPT !.action = action], todays, cbDate,
                  BranchView(action, cbDate, r.fault), "edit", TRUE)

\* The same when the transport call `failed` raises.
Alone(r, todays, failed) ==
    IF failed = "answer"
    THEN TransportRaised([IdleSlot EXCEPT !.pc = "run", !.req = r,
                                          !.out = <<Op("answer", NoText, <<>>)>>])
    ELSE IF failed = "send" /\ AloneSent(r, todays).pc = "await"
    THEN TransportRaised(AloneSent(r, todays))
    ELSE AloneSent(r, todays)

\* The clock reads an invocation of update r makes.
ReadsOf(r, failed) ==
    IF r.kind \in {"day", "week"} THEN (IF ParseDateArg(r.args) = NoDate THEN 1 ELSE 0)
    ELSE IF r.kind = "menu" THEN 2
    ELSE IF r.kind = "callback" /\ r.hasQuery /\ failed # "answer"
            /\ FirstColon(r.data) # 0
            /\ SplitAction(r.data) \in Actions /\ Strptime(SplitPayload(r.data)) = NoDate
    THEN 1
    ELSE 0

\* C9: whatever else is in flight, an invocation that has run has sent or
\* edited exactly the text and tokens, made exactly the engine calls and
\* come to exactly the outcome that it would have alone, for its own update,
\* the days it read itself and the transport call of its own that raised.
C9_RunsAsIfAlone ==
    \A i \in Slots :
        Ran(h[i])
        => /\ Len(h[i].todays) = ReadsOf(h[i].req, FailedCall(h[i]))
           /\ \A k \in 1..Len(h[i].todays) : h[i].todays[k] \in ClockDays
           /\ [h[i] EXCEPT !.pc = "done"] =
                [Alone(h[i].req, h[i].todays, FailedCall(h[i])) EXCEPT !.pc = "done"]

\* Two invocations are past their awaited transport calls at the same time,
\* a day report for today and an edit for another day.
C9_Witness ==
    /\ h[1].pc = "await" /\ h[2].pc = "await"
    /\ h[1].req.kind = "day" /\ h[2].req.kind = "callback"
    /\ h[1].d = Today /\ h[2].d = MkDate(2025, 2, 5)
    /\ h[2].out[2].text = CrowdText(MkDate(2025, 2, 5))

====
